---- MODULE Spec2Model ----
(***************************************************************************)
(* url_metadata: URLMetadataCache (core.py), clean_url / fibo_backoff      *)
(* (utils.py) and the AbstractSite extractor interface (sites/abstract.py).*)
(*                                                                         *)
(* A URL is a sequence of one-character strings.  The cache facade is a    *)
(* state machine: one get() call at a time, split at the points where the  *)
(* call hands control to a collaborator (lassie.fetch, the SaveSession     *)
(* callback, the extractors).                                              *)
(***************************************************************************)
EXTENDS Naturals, Integers, Sequences, FiniteSets, TLC

(***************************************************************************)
(* Bounds of the model                                                     *)
(***************************************************************************)
\* number of get() calls issued on one URLMetadataCache
MaxGets == 3
\* HTTP responses lassie receives during one fetch attempt
MaxResponses == 2
\* length of the raw URLs given to preprocess_url taken alone
MaxURLLen == 5
\* URLMetadataCache(...) constructions in one process
MaxInstances == 2
\* length of the additional_extractors argument
MaxAdditional == 2

(***************************************************************************)
(* Program constants                                                       *)
(***************************************************************************)
\* core.py:201  max_tries=3
max_tries == 3
\* utils.py:24  range(6)
FiboSkip == 6

\* Python's None, where a record (a dict, a Response, a Metadata) may stand
None == [none |-> TRUE]

(***************************************************************************)
(* utils.py: clean_url = unquote(url).strip()                              *)
(***************************************************************************)
\* hexadecimal digits urllib.parse.unquote accepts after a '%'
HexVal ==
  [c \in {"0", "1", "2", "3", "4", "5", "6", "7", "8", "9",
          "a", "b", "c", "d", "e", "f", "A", "B", "C", "D", "E", "F"} |->
     CASE c = "0" -> 0 [] c = "1" -> 1 [] c = "2" -> 2 [] c = "3" -> 3
       [] c = "4" -> 4 [] c = "5" -> 5 [] c = "6" -> 6 [] c = "7" -> 7
       [] c = "8" -> 8 [] c = "9" -> 9
       [] c \in {"a", "A"} -> 10 [] c \in {"b", "B"} -> 11
       [] c \in {"c", "C"} -> 12 [] c \in {"d", "D"} -> 13
       [] c \in {"e", "E"} -> 14 [] c \in {"f", "F"} -> 15]

HexChars == DOMAIN HexVal

\* chr() on the byte values the model's URLs can spell ("%20", "%25", ...)
Chr(n) ==
  CASE n = 0 -> "NUL" [] n = 2 -> "STX" [] n = 5 -> "ENQ"
    [] n = 32 -> " " [] n = 34 -> "\"" [] n = 37 -> "%"
    [] n = 80 -> "P" [] n = 82 -> "R" [] n = 85 -> "U"

\* str.strip() removes these from both ends
Whitespace == {" "}

RECURSIVE unquote(_)
\* one left-to-right pass: every "%XX" with two hex digits becomes one
\* character, any other '%' is kept as it is
unquote(s) ==
  IF s = <<>> THEN <<>>
  ELSE IF s[1] = "%" /\ Len(s) >= 3 /\ s[2] \in HexChars /\ s[3] \in HexChars
       THEN <<Chr(16 * HexVal[s[2]] + HexVal[s[3]])>>
              \o unquote(SubSeq(s, 4, Len(s)))
       ELSE <<s[1]>> \o unquote(Tail(s))

RECURSIVE lstrip(_)
lstrip(s) ==
  IF s # <<>> /\ s[1] \in Whitespace THEN lstrip(Tail(s)) ELSE s

RECURSIVE rstrip(_)
rstrip(s) ==
  IF s # <<>> /\ s[Len(s)] \in Whitespace
  THEN rstrip(SubSeq(s, 1, Len(s) - 1)) ELSE s

strip(s) == rstrip(lstrip(s))

clean_url(url) == strip(unquote(url))

(***************************************************************************)
(* Extractor registry.  sites/abstract.py gives the interface only; the    *)
(* two registered sites follow the contract of the specification: a        *)
(* rewrite that is idempotent and leaves other URLs alone, a pure match    *)
(* predicate, and an enrichment that adds a named field.                   *)
(*   SiteU: URLs starting with "U"; "R..." is an alias spelling of "U...". *)
(*   SiteP: URLs starting with "U" or "P"; no rewrite.                     *)
(***************************************************************************)
EXTRACTORS == <<"SiteU", "SiteP">>

matches_site(e, url) ==
  /\ url # <<>>
  /\ CASE e = "SiteU" -> url[1] = "U"
       [] e = "SiteP" -> url[1] \in {"U", "P"}

site_preprocess_url(e, url) ==
  IF e = "SiteU" /\ url # <<>> /\ url[1] = "R"
  THEN <<"U">> \o Tail(url)
  ELSE url

extract_info(e, url, metadata) ==
  [metadata EXCEPT !.extras = Append(@, e)]

RECURSIVE run_preprocess(_, _)
\* the for loop of preprocess_url from extractor i on
run_preprocess(i, url) ==
  IF i > Len(EXTRACTORS) THEN url
  ELSE run_preprocess(i + 1, site_preprocess_url(EXTRACTORS[i], url))

\* core.py:141
preprocess_url(url) == run_preprocess(1, clean_url(url))

(***************************************************************************)
(* utils.py: fibo_backoff, and the wait generator of backoff.on_exception  *)
(***************************************************************************)
RECURSIVE fibo(_)
\* n-th value of backoff.fibo(): 1, 1, 2, 3, 5, 8, 13, ...
fibo(n) == IF n <= 2 THEN 1 ELSE fibo(n - 1) + fibo(n - 2)

\* n-th value yielded by fibo_backoff(): the first six are consumed
fibo_backoff(n) == fibo(n + FiboSkip)

(***************************************************************************)
(* Collaborators at their boundary                                         *)
(***************************************************************************)
\* raw URLs handed to get(): plain, an alias spelling, percent-encoded
\* once and twice, surrounded by whitespace, and a URL no site matches
RawURLs ==
  { <<"U">>, <<"R">>, <<"%", "5", "5">>,
    <<"%", "2", "5", "5", "5">>, <<" ", "%", "2", "5", "5", "5">>,
    <<"%", "2", "0", "5">> }

\* status codes and bodies of the responses lassie's session receives
Statuses == {200, 404, 429}
Bodies == {<<>>, <<"h">>}

\* lassie.fetch always returns a non-empty dict
Info == [title |-> "t"]

\* parsing.summarize_html, opaque
summarize_html(text) == [summary_of |-> text]

\* model.Metadata(url=..., timestamp=...)
Metadata(url, timestamp) ==
  [url |-> url, timestamp |-> timestamp, info |-> None,
   html_summary |-> None, extras |-> <<>>]

\* MetadataCache.has / get / put
cache_has(c, url) == url \in DOMAIN c
cache_get(c, url) == IF url \in DOMAIN c THEN c[url] ELSE None
cache_put(c, url, data) == (url :> data) @@ c

(***************************************************************************)
(* State                                                                   *)
(***************************************************************************)
VARIABLES
  cache,        \* metadata_cache: normalized URL -> stored record
  _response,    \* self._response: last response the session received
  now,          \* datetime.now(), a logical clock
  pc,           \* position of the running get() call, "idle" between calls
  raw,          \* get(): the url argument
  uurl,         \* get(): uurl = preprocess_url(url)
  metadata,     \* request_data(): the record being built
  tries,        \* backoff decorator: number of the running attempt
  nresp,        \* responses received during the running attempt
  ext,          \* request_data(): index of the extractor loop
  attempts,     \* this call: how each finished attempt ended
  recvAttempt,  \* this call: last response received in the running attempt
  recvCall,     \* this call: last response received at all
  backoffs,     \* this call: values drawn from the wait generator
  elapsed,      \* this call: seconds slept by the backoff decorator
  sleeps,       \* this call: number of sleep(self.sleep_time) executed
  logged,       \* this call: warnings written to the logger
  fetches,      \* normalized URL -> number of request_data calls by get()
  results,      \* one entry per finished get() call
  nin,          \* preprocess_url alone: the raw URL
  nout,         \* preprocess_url alone: the results of repeated application
  fs,           \* file system: kind of the cache root, its parent, its data
  module_extractors,  \* the module-level list sites.EXTRACTORS
  built         \* one entry per URLMetadataCache(...) construction

\* the state of one URLMetadataCache at work
mainVars ==
  <<cache, _response, now, pc, raw, uurl, metadata, tries, nresp, ext,
    attempts, recvAttempt, recvCall, backoffs, elapsed, sleeps, logged,
    fetches, results>>

\* the state of the normalizer taken alone
normVars == <<nin, nout>>

\* the state construction reads and writes
ctorVars == <<fs, module_extractors, built>>

vars == <<mainVars, normVars, ctorVars>>

Count(f, k) == IF k \in DOMAIN f THEN f[k] ELSE 0

\* core.py:255
in_cache(url) == cache_has(cache, preprocess_url(url))

InitMain ==
  /\ cache = << >>
  /\ _response = None
  /\ now = 0
  /\ pc = "idle"
  /\ raw = <<>>
  /\ uurl = <<>>
  /\ metadata = None
  /\ tries = 0
  /\ nresp = 0
  /\ ext = 0
  /\ attempts = <<>>
  /\ recvAttempt = None
  /\ recvCall = None
  /\ backoffs = <<>>
  /\ elapsed = 0
  /\ sleeps = 0
  /\ logged = {}
  /\ fetches = << >>
  /\ results = <<>>

\* no URL under normalization
InitNormIdle ==
  /\ nin = <<>>
  /\ nout = <<>>

\* core.py:97-103, 130: the directories exist, the registry is the default
InitCtorIdle ==
  /\ fs = [parent |-> "dir", root |-> "dir", data |-> "dir"]
  /\ module_extractors = EXTRACTORS
  /\ built = <<>>

Init == InitMain /\ InitNormIdle /\ InitCtorIdle

(***************************************************************************)
(* get(): normalize, cache check, then either the cached record or the     *)
(* start of request_data() up to the first call of lassie.fetch            *)
(***************************************************************************)
\* the per-call bookkeeping, cleared when a call starts
NewCall ==
  /\ attempts' = <<>>
  /\ recvAttempt' = None
  /\ recvCall' = None
  /\ backoffs' = <<>>
  /\ elapsed' = 0
  /\ sleeps' = 0
  /\ logged' = {}
  /\ nresp' = 0
  /\ ext' = 0

\* core.py:247-253 handing back whatever the cache read gave
hit_outcome_silent(fdata) == "return"

\* core.py:247-253  a present entry that reads back as None is fatal
hit_outcome(fdata) ==
  IF fdata = None THEN "URLMetadataException" ELSE "return"

\* core.py:246-253: the entry is reported present; read it back
GetHit(url) ==
  LET k == preprocess_url(url)
      fdata == cache_get(cache, k)
  IN /\ pc = "idle"
     /\ Len(results) < MaxGets
     /\ in_cache(k)
     /\ NewCall
     /\ raw' = url
     /\ uurl' = k
     /\ metadata' = None
     /\ tries' = 0
     /\ results' = Append(results,
           [url |-> url, key |-> k, fetched |-> FALSE,
            outcome |-> hit_outcome(fdata),
            record |-> fdata])
     /\ UNCHANGED <<cache, _response, now, pc, fetches>>
     /\ UNCHANGED <<normVars, ctorVars>>

\* request_data() without the reset of core.py:167
reset_response_stale == UNCHANGED _response

\* core.py:167  no stale response may be left from an earlier call
reset_response == _response' = None

\* core.py:242-243 and 163-172: not in cache; request_data(uurl) starts
GetMiss(url) ==
  LET k == preprocess_url(url)
      ru == preprocess_url(k)
  IN /\ pc = "idle"
     /\ Len(results) < MaxGets
     /\ ~in_cache(k)
     /\ NewCall
     /\ raw' = url
     /\ uurl' = k
     /\ metadata' = Metadata(ru, now)
     /\ now' = now + 1
     /\ reset_response
     /\ tries' = 1
     /\ fetches' = (k :> (Count(fetches, k) + 1)) @@ fetches
     /\ pc' = "fetch"
     /\ UNCHANGED <<cache, results>>
     /\ UNCHANGED <<normVars, ctorVars>>

(***************************************************************************)
(* One attempt of _fetch_lassie under backoff.on_exception                 *)
(***************************************************************************)
\* core.py:225  SaveSession.send -> _save_http_response
_save_http_response(status, body) ==
  LET resp == [status_code |-> status, text |-> body, received |-> now]
  IN /\ pc = "fetch"
     /\ nresp < MaxResponses
     /\ _response' = resp
     /\ recvAttempt' = resp
     /\ recvCall' = resp
     /\ nresp' = nresp + 1
     /\ UNCHANGED <<cache, now, pc, raw, uurl, metadata, tries, ext,
                    attempts, backoffs, elapsed, sleeps, logged, fetches,
                    results>>
     /\ UNCHANGED <<normVars, ctorVars>>

\* core.py:206-209 and 172: lassie.fetch returns the metadata dict
FetchReturn ==
  /\ pc = "fetch"
  /\ metadata' = [metadata EXCEPT !.info = Info]
  /\ attempts' = Append(attempts, "ok")
  /\ pc' = "sleep"
  /\ UNCHANGED <<cache, _response, now, raw, uurl, tries, nresp, ext,
                 recvAttempt, recvCall, backoffs, elapsed, sleeps, logged,
                 fetches, results>>
  /\ UNCHANGED <<normVars, ctorVars>>

\* how an attempt that raised LassieError really ended
Failure(resp) ==
  IF resp # None /\ resp.status_code = 429 THEN "rate_limited" ELSE "error"

\* the test of core.py:212 on another status code
is_rate_limited_404(resp) == resp # None /\ resp.status_code = 404

\* core.py:212  the test that turns a LassieError into a retryable one
is_rate_limited(resp) == resp # None /\ resp.status_code = 429

\* backoff.full_jitter: random.uniform(0, value), taken at its two ends
full_jitter(value) == {0, value}

\* core.py:210-216, 200-202 and 173-175: lassie.fetch raises LassieError
FetchLassieError ==
  /\ pc = "fetch"
  /\ attempts' = Append(attempts, Failure(recvAttempt))
  /\ logged' = logged \cup {"lassie_error"}
  /\ IF is_rate_limited(_response)
     THEN \* URLMetadataRequestException reaches the decorator
          IF tries = max_tries
          THEN \* given up and re-raised; request_data passes over it
               /\ pc' = "sleep"
               /\ UNCHANGED <<tries, nresp, recvAttempt, backoffs, elapsed>>
          ELSE \* next(wait), jitter, time.sleep, then the next attempt
               /\ \E seconds \in full_jitter(fibo_backoff(tries)) :
                    elapsed' = elapsed + seconds
               /\ backoffs' = Append(backoffs, fibo_backoff(tries))
               /\ tries' = tries + 1
               /\ nresp' = 0
               /\ recvAttempt' = None
               /\ pc' = "fetch"
     ELSE \* return None: metadata.info stays None
          /\ pc' = "sleep"
          /\ UNCHANGED <<tries, nresp, recvAttempt, backoffs, elapsed>>
  /\ UNCHANGED <<cache, _response, now, raw, uurl, metadata, ext, recvCall,
                 sleeps, fetches, results>>
  /\ UNCHANGED <<normVars, ctorVars>>

(***************************************************************************)
(* Rest of request_data(), then the store and return of get()              *)
(***************************************************************************)
\* core.py:177 placed inside the try block, after a fetch that returned
Sleep_on_success ==
  /\ pc = "sleep"
  /\ sleeps' = IF metadata.info # None THEN sleeps + 1 ELSE sleeps
  /\ pc' = "summarize"
  /\ UNCHANGED <<cache, _response, now, raw, uurl, metadata, tries, nresp,
                 ext, attempts, recvAttempt, recvCall, backoffs, elapsed,
                 logged, fetches, results>>
  /\ UNCHANGED <<normVars, ctorVars>>

\* core.py:177
Sleep ==
  /\ pc = "sleep"
  /\ sleeps' = sleeps + 1
  /\ pc' = "summarize"
  /\ UNCHANGED <<cache, _response, now, raw, uurl, metadata, tries, nresp,
                 ext, attempts, recvAttempt, recvCall, backoffs, elapsed,
                 logged, fetches, results>>
  /\ UNCHANGED <<normVars, ctorVars>>

\* core.py:183 without the test of metadata.info
truthy_always(info) == TRUE

\* core.py:183  bool(metadata.info)
truthy(info) == info # None

\* core.py:182-186 without the test of the response text
has_content_any_text(md, resp) == truthy(md.info) /\ resp # None

\* core.py:182-186
has_content(md, resp) ==
  truthy(md.info) /\ resp # None /\ Len(resp.text) > 0

\* core.py:187 with the bound of the server errors
status_ok_500(resp) == resp.status_code < 500

\* core.py:187
status_ok(resp) == resp.status_code < 400

\* core.py:182-192
Summarize ==
  /\ pc = "summarize"
  /\ IF has_content(metadata, _response)
     THEN IF status_ok(_response)
          THEN /\ metadata' =
                    [metadata EXCEPT
                       !.html_summary = summarize_html(_response.text)]
               /\ UNCHANGED logged
          ELSE /\ logged' = logged \cup {"skip_html"}
               /\ UNCHANGED metadata
     ELSE UNCHANGED <<metadata, logged>>
  /\ ext' = 1
  /\ pc' = "extract"
  /\ UNCHANGED <<cache, _response, now, raw, uurl, tries, nresp, attempts,
                 recvAttempt, recvCall, backoffs, elapsed, sleeps, fetches,
                 results>>
  /\ UNCHANGED <<normVars, ctorVars>>

\* core.py:195-197 without the test of matches_site
Extract_unconditional ==
  /\ pc = "extract"
  /\ ext <= Len(EXTRACTORS)
  /\ metadata' = extract_info(EXTRACTORS[ext], metadata.url, metadata)
  /\ ext' = ext + 1
  /\ UNCHANGED <<cache, _response, now, pc, raw, uurl, tries, nresp,
                 attempts, recvAttempt, recvCall, backoffs, elapsed, sleeps,
                 logged, fetches, results>>
  /\ UNCHANGED <<normVars, ctorVars>>

\* core.py:195-197, one iteration of the loop over self.extractors
Extract ==
  /\ pc = "extract"
  /\ ext <= Len(EXTRACTORS)
  /\ metadata' = IF matches_site(EXTRACTORS[ext], metadata.url)
                 THEN extract_info(EXTRACTORS[ext], metadata.url, metadata)
                 ELSE metadata
  /\ ext' = ext + 1
  /\ UNCHANGED <<cache, _response, now, pc, raw, uurl, tries, nresp,
                 attempts, recvAttempt, recvCall, backoffs, elapsed, sleeps,
                 logged, fetches, results>>
  /\ UNCHANGED <<normVars, ctorVars>>

\* core.py:244 reached while the loop of core.py:195 is still running
StoreReturn_early ==
  /\ pc = "extract"
  /\ ext > 1
  /\ cache' = cache_put(cache, uurl, metadata)
  /\ results' = Append(results,
        [url |-> raw, key |-> uurl, fetched |-> TRUE,
         outcome |-> "return", record |-> metadata])
  /\ pc' = "idle"
  /\ UNCHANGED <<_response, now, raw, uurl, metadata, tries, nresp, ext,
                 attempts, recvAttempt, recvCall, backoffs, elapsed, sleeps,
                 logged, fetches>>
  /\ UNCHANGED <<normVars, ctorVars>>

\* core.py:198 and 244-245: request_data returns, get stores and returns
StoreReturn ==
  /\ pc = "extract"
  /\ ext > Len(EXTRACTORS)
  /\ cache' = cache_put(cache, uurl, metadata)
  /\ results' = Append(results,
        [url |-> raw, key |-> uurl, fetched |-> TRUE,
         outcome |-> "return", record |-> metadata])
  /\ pc' = "idle"
  /\ UNCHANGED <<_response, now, raw, uurl, metadata, tries, nresp, ext,
                 attempts, recvAttempt, recvCall, backoffs, elapsed, sleeps,
                 logged, fetches>>
  /\ UNCHANGED <<normVars, ctorVars>>

Next ==
  \/ \E url \in RawURLs : GetHit(url)
  \/ \E url \in RawURLs : GetMiss(url)
  \/ \E status \in Statuses, body \in Bodies :
       _save_http_response(status, body)
  \/ FetchReturn
  \/ FetchLassieError
  \/ Sleep
  \/ Summarize
  \/ Extract
  \/ StoreReturn

Spec == Init /\ [][Next]_vars

(***************************************************************************)
(* The same machine with extractors whose extract_info may raise           *)
(***************************************************************************)
\* core.py:243-244 with the put moved into a finally clause
ExtractRaise_stored ==
  /\ pc = "extract"
  /\ ext <= Len(EXTRACTORS)
  /\ matches_site(EXTRACTORS[ext], metadata.url)
  /\ cache' = cache_put(cache, uurl, metadata)
  /\ results' = Append(results,
        [url |-> raw, key |-> uurl, fetched |-> TRUE,
         outcome |-> "ExtractorError", record |-> None])
  /\ pc' = "raised"
  /\ UNCHANGED <<_response, now, raw, uurl, metadata, tries, nresp, ext,
                 attempts, recvAttempt, recvCall, backoffs, elapsed, sleeps,
                 logged, fetches>>
  /\ UNCHANGED <<normVars, ctorVars>>

\* core.py:197 and 243: extract_info raises; request_data and get let the
\* exception through, so core.py:244 is not reached.  The exception leaves
\* get() uncaught: the behaviour ends in "raised".
ExtractRaise ==
  /\ pc = "extract"
  /\ ext <= Len(EXTRACTORS)
  /\ matches_site(EXTRACTORS[ext], metadata.url)
  /\ results' = Append(results,
        [url |-> raw, key |-> uurl, fetched |-> TRUE,
         outcome |-> "ExtractorError", record |-> None])
  /\ pc' = "raised"
  /\ UNCHANGED <<cache, _response, now, raw, uurl, metadata, tries, nresp,
                 ext, attempts, recvAttempt, recvCall, backoffs, elapsed,
                 sleeps, logged, fetches>>
  /\ UNCHANGED <<normVars, ctorVars>>

NextRaise ==
  \/ Next
  \/ ExtractRaise

SpecRaise == Init /\ [][NextRaise]_vars

(***************************************************************************)
(* preprocess_url taken alone, applied again to its own result as get(),   *)
(* in_cache() and request_data() do (core.py:241, 257, 163)                *)
(***************************************************************************)
\* characters of the raw URLs: an escape sign, two hex digits, whitespace
\* and the first letter of an alias spelling
NormAlphabet == {"%", "2", "5", " ", "R"}

NormURLs == UNION {[1..n -> NormAlphabet] : n \in 0..MaxURLLen}

InitNorm ==
  /\ InitMain
  /\ InitCtorIdle
  /\ nin \in NormURLs
  /\ nout = <<>>

\* core.py:241 on the raw URL, then core.py:257 / 163 on the result
Normalize ==
  /\ Len(nout) < 2
  /\ nout' = Append(nout, preprocess_url(IF nout = <<>> THEN nin
                                         ELSE nout[Len(nout)]))
  /\ UNCHANGED <<nin, mainVars, ctorVars>>

NextNorm == Normalize

SpecNorm == InitNorm /\ [][NextNorm]_vars

(***************************************************************************)
(* URLMetadataCache.__init__: cache directory and extractor registry       *)
(***************************************************************************)
\* what a path is on disk
Kinds == {"absent", "file", "dir"}

\* the cache root, its parent directory and its "data" entry; an entry
\* exists only inside a directory
FileSystems ==
  {f \in [parent : Kinds, root : Kinds, data : Kinds] :
     /\ f.parent # "dir" => f.root = "absent"
     /\ f.root # "dir" => f.data = "absent"}

\* classes passed as additional_extractors: a subclass of AbstractSite, a
\* class outside the hierarchy whose constructor takes umc, and one whose
\* constructor does not
AdditionalClasses == {"SiteX", "Duck", "Plain"}

AdditionalLists ==
  UNION {[1..n -> AdditionalClasses] : n \in 0..MaxAdditional}

\* core.py:133  issubclass(ext, AbstractSite)
is_abstract_site(e) == e \in {"SiteU", "SiteP", "SiteX"}

\* core.py:138  e(umc=self) returns an instance
accepts_umc(e) == e # "Plain"

\* core.py:133-134  the classes a warning is logged for
warned_classes(additional) ==
  SelectSeq(additional, LAMBDA e : ~is_abstract_site(e))

\* core.py:132-135 leaving out the classes it warns about
register_strict(classes, additional) ==
  classes \o SelectSeq(additional, is_abstract_site)

\* core.py:130-135  extractor_classes is the module list itself; every
\* additional class is appended to it
register(classes, additional) == classes \o additional

\* core.py:137-139  every registered class can be instantiated
instantiable(classes) ==
  \A i \in 1..Len(classes) : accepts_umc(classes[i])

\* core.py:97-103  the directories after the two mkdir calls
made_dirs(f) ==
  [f EXCEPT !.root = IF @ = "absent" THEN "dir" ELSE @,
            !.data = IF f.data = "absent" THEN "dir" ELSE f.data]

\* core.py:62-139.  cache_ok: whether MetadataCache(cache_dir) accepts a
\* "data" entry that is a regular file
Construct(additional, cache_ok) ==
  LET fs2 == made_dirs(fs)
      classes == register(module_extractors, additional)
      entry(outcome, f, cls, registry, warned) ==
        [additional |-> additional, outcome |-> outcome,
         fs_before |-> fs, fs_after |-> f,
         classes_before |-> module_extractors, classes_after |-> cls,
         registry |-> registry, warned |-> warned]
  IN /\ Len(built) < MaxInstances
     /\ IF fs.root = "file"
        THEN \* core.py:91-96  RuntimeError
             /\ built' = Append(built,
                   entry("RuntimeError", fs, module_extractors, <<>>, <<>>))
             /\ UNCHANGED <<fs, module_extractors>>
        ELSE IF fs.root = "absent" /\ fs.parent # "dir"
        THEN \* core.py:98  mkdir() without parents=True
             /\ built' = Append(built,
                   entry("OSError", fs, module_extractors, <<>>, <<>>))
             /\ UNCHANGED <<fs, module_extractors>>
        ELSE IF fs2.data = "file" /\ ~cache_ok
        THEN \* core.py:104  MetadataCache refuses the path
             /\ built' = Append(built,
                   entry("CacheError", fs2, module_extractors, <<>>, <<>>))
             /\ fs' = fs2
             /\ UNCHANGED module_extractors
        ELSE \* core.py:129-139
             /\ fs' = fs2
             /\ module_extractors' = classes
             /\ built' = Append(built,
                   IF instantiable(classes)
                   THEN entry("ok", fs2, classes, classes,
                              warned_classes(additional))
                   ELSE entry("TypeError", fs2, classes, <<>>,
                              warned_classes(additional)))
     /\ UNCHANGED <<mainVars, normVars>>

InitCtor ==
  /\ InitMain
  /\ InitNormIdle
  /\ fs \in FileSystems
  /\ module_extractors = EXTRACTORS
  /\ built = <<>>

NextCtor ==
  \E additional \in AdditionalLists, cache_ok \in BOOLEAN :
    Construct(additional, cache_ok)

SpecCtor == InitCtor /\ [][NextCtor]_vars

(***************************************************************************)
(* Properties                                                              *)
(***************************************************************************)
\* the finished get() calls, by position
Calls == 1..Len(results)

\* C1: get(u) called twice in sequence performs one fetch in total when u
\* was not cached and none when it was, the second call performs no fetch
\* and returns the record the first call returned; and no normalized URL is
\* ever fetched more than once.
C1_IdempotentGet ==
  /\ \A i \in Calls : \A j \in Calls :
       (j = i + 1 /\ results[i].url = results[j].url)
         => /\ ~results[j].fetched
            /\ results[j].outcome = "return"
            /\ results[j].record = results[i].record
  /\ \A k \in DOMAIN fetches : fetches[k] <= 1

\* C2: two raw URLs with the same preprocess_url share one cache entry: the
\* later get() is a cache hit that returns the record of the earlier one,
\* and only one fetch happens for the key.
C2_SharedEntry ==
  \A i \in Calls : \A j \in Calls :
    (i < j /\ results[i].url # results[j].url
       /\ preprocess_url(results[i].url) = preprocess_url(results[j].url))
      => /\ ~results[j].fetched
         /\ results[j].outcome = "return"
         /\ results[j].record = results[i].record
         /\ Count(fetches, preprocess_url(results[j].url)) = 1

\* the running or last call was a miss whose fetch step is over
FetchOver ==
  \/ pc \in {"sleep", "summarize", "extract"}
  \/ pc = "idle" /\ results # <<>> /\ results[Len(results)].fetched

\* the last call was a miss and has returned
Returned ==
  pc = "idle" /\ results # <<>> /\ results[Len(results)].fetched

\* every attempt of this call ended in a LassieError on a 429 response
AllRateLimited ==
  /\ attempts # <<>>
  /\ \A i \in 1..Len(attempts) : attempts[i] = "rate_limited"

\* every attempt of this call ended in a LassieError
NoAttemptOk ==
  /\ attempts # <<>>
  /\ \A i \in 1..Len(attempts) : attempts[i] # "ok"

\* C3: when every attempt is rate-limited, one request_data call makes
\* exactly 3 attempts, never more, and then goes on with info absent; get
\* returns that record instead of raising.
C3_RetryBound ==
  /\ AllRateLimited => tries <= 3
  /\ (FetchOver /\ AllRateLimited)
       => Len(attempts) = 3 /\ metadata.info = None
  /\ (Returned /\ AllRateLimited)
       => /\ results[Len(results)].outcome = "return"
          /\ results[Len(results)].record.info = None

C3_Witness ==
  /\ Returned
  /\ attempts = <<"rate_limited", "rate_limited", "rate_limited">>
  /\ results[Len(results)].record.info = None

\* C4: when every attempt is rate-limited, the backoff delays of one fetch
\* are 13, 21, 34 and the total backoff of the 3 attempts is 13+21+34.
C4_BackoffTotal ==
  (FetchOver /\ AllRateLimited)
    => backoffs = <<13, 21, 34>> /\ elapsed = 13 + 21 + 34

\* C5: an attempt that fails without itself receiving a 429 is never
\* retried: it is the last attempt of its call, whatever its number, and
\* the call goes on with info absent.
C5_NoRetryAfterError ==
  \A i \in 1..Len(attempts) :
    attempts[i] = "error"
      => tries = i /\ (FetchOver => metadata.info = None)

\* C6: if every attempt of a cache-miss get() ends in a LassieError, get
\* still returns a record, with info absent and html_summary absent.
C6_ErrorsDegrade ==
  /\ (pc = "extract" /\ NoAttemptOk)
       => metadata.info = None /\ metadata.html_summary = None
  /\ (Returned /\ NoAttemptOk)
       => /\ results[Len(results)].outcome = "return"
          /\ results[Len(results)].record.info = None
          /\ results[Len(results)].record.html_summary = None

C6_Witness ==
  /\ Returned
  /\ attempts[Len(attempts)] = "error"
  /\ _response # None
  /\ _response.status_code = 200
  /\ _response.text # <<>>
  /\ results[Len(results)].record.html_summary = None

\* C7: after the generic fetch step, html_summary is summarize applied to
\* the captured body if and only if info was obtained, a response was
\* captured, its body is non-empty and its status code is below 400;
\* otherwise html_summary is absent.
C7_SummaryGate ==
  (pc = "extract" \/ Returned)
    => IF /\ metadata.info # None
          /\ _response # None
          /\ Len(_response.text) > 0
          /\ _response.status_code < 400
       THEN metadata.html_summary = summarize_html(_response.text)
       ELSE metadata.html_summary = None

C7_Witness ==
  /\ pc = "extract"
  /\ _response # None
  /\ _response.status_code = 200
  /\ metadata.html_summary = summarize_html(<<"h">>)

\* C8 as claimed: whenever a fetch ends with a captured response of failing
\* status, summarization is skipped and a warning is logged, also when info
\* is absent or the body is empty.
C8_WarnOnEveryFailingStatus ==
  (pc = "extract" /\ _response # None /\ _response.status_code >= 400)
    => metadata.html_summary = None /\ logged # {}

\* C8 amended: with a captured response of failing status summarization is
\* always skipped; request_data logs its warning exactly when info was
\* obtained and the body is non-empty.
C8_WarnOnFailingStatusWithContent ==
  (pc = "extract" /\ _response # None /\ _response.status_code >= 400)
    => /\ metadata.html_summary = None
       /\ "skip_html" \in logged
            <=> (metadata.info # None /\ Len(_response.text) > 0)

C8_Witness ==
  /\ pc = "extract"
  /\ _response # None
  /\ _response.status_code = 404
  /\ metadata.info # None
  /\ "skip_html" \in logged

\* C9: the response read by summarization and by the extractors during a
\* call is none or the most recent response received during that call,
\* never one received during an earlier call.
C9_NoStaleResponse ==
  pc \in {"summarize", "extract"}
    => /\ _response = recvCall
       /\ _response # None => _response.received > metadata.timestamp

C9_Witness ==
  /\ pc = "summarize"
  /\ _response = None
  /\ Len(results) >= 1
  /\ results[1].fetched
  /\ results[1].record.html_summary # None

\* C10: on a cache-miss get() the settle wait happens exactly once, after
\* the last fetch attempt and before summarization, extractor dispatch and
\* the return, for every fetch outcome.
C10_SettleOnce ==
  /\ pc \in {"fetch", "sleep"} => sleeps = 0
  /\ pc \in {"summarize", "extract"} => sleeps = 1 /\ Len(attempts) = tries
  /\ Returned => sleeps = 1 /\ Len(attempts) = tries

C10_Witness ==
  /\ pc = "summarize"
  /\ sleeps = 1
  /\ Len(attempts) = 3
  /\ attempts[3] = "rate_limited"
  /\ metadata.info = None

\* the extractors among the first n registered that match url, in order
MatchingUpTo(n, url) ==
  SelectSeq(SubSeq(EXTRACTORS, 1, n), LAMBDA e : matches_site(e, url))

\* C11: extractors are dispatched in registration order after the generic
\* fetch/summarize step; extract_info runs only on the extractors that
\* match the URL, each on the record the previous one returned, and the
\* record request_data returns is the output of the last one.
C11_DispatchOrder ==
  /\ pc \in {"fetch", "sleep", "summarize"} => metadata.extras = <<>>
  /\ pc = "extract"
       => metadata.extras = MatchingUpTo(ext - 1, metadata.url)
  /\ Returned
       => results[Len(results)].record.extras
            = MatchingUpTo(Len(EXTRACTORS), metadata.url)

C11_Witness ==
  /\ Returned
  /\ results[Len(results)].record.extras = <<"SiteU", "SiteP">>
  /\ \E i \in Calls : results[i].fetched /\ results[i].record.extras = <<>>

\* C12: when the cache reports the entry present but reading it yields no
\* record, get() raises URLMetadataException for that call: it performs no
\* fetch and does not write the cache.
C12_InconsistentHitIsFatal ==
  [][\A url \in RawURLs :
       (/\ pc = "idle"
        /\ Len(results') = Len(results) + 1
        /\ raw' = url
        /\ in_cache(preprocess_url(url))
        /\ cache_get(cache, preprocess_url(url)) = None)
         => /\ results'[Len(results')].outcome = "URLMetadataException"
            /\ ~results'[Len(results')].fetched
            /\ pc' = "idle"
            /\ tries' = 0
            /\ fetches' = fetches
            /\ cache' = cache]_vars

C12_Witness ==
  /\ pc = "idle"
  /\ results # <<>>
  /\ results[Len(results)].outcome = "URLMetadataException"
  /\ cache_has(cache, preprocess_url(uurl))
  /\ ~cache_has(cache, uurl)

\* C13: every record get() stores has its url field equal to the
\* normalized URL it is stored under, the key in_cache looks up.
C13_RecordUrlIsKey ==
  \A k \in DOMAIN cache :
    cache[k].url = k /\ cache_has(cache, preprocess_url(k))

\* C16: on a cache miss the cache is written exactly once, by the step
\* that ends the call, after the fetch, the settle wait and every
\* extractor; the record written is the record get() returns, with every
\* enrichment.
C16_StoreLast ==
  [][cache' # cache
       => /\ pc = "extract"
          /\ ext > Len(EXTRACTORS)
          /\ sleeps = 1
          /\ metadata.extras = MatchingUpTo(Len(EXTRACTORS), metadata.url)
          /\ pc' = "idle"
          /\ DOMAIN cache' = DOMAIN cache \cup {uurl}
          /\ \A k \in DOMAIN cache : k # uurl => cache'[k] = cache[k]
          /\ cache'[uurl] = metadata
          /\ Len(results') = Len(results) + 1
          /\ results'[Len(results')].outcome = "return"
          /\ results'[Len(results')].record = cache'[uurl]]_vars

C16_Witness ==
  /\ Returned
  /\ cache_has(cache, uurl)
  /\ cache[uurl] = results[Len(results)].record
  /\ cache[uurl].extras = <<"SiteU", "SiteP">>
  /\ cache[uurl].html_summary # None

\* C17: on a cache hit get() is read-only and returns the stored record:
\* no fetch attempt, no settle wait, no extract_info, no cache write, and
\* the captured last response is left as it was.
C17_HitReadOnly ==
  [][\A url \in RawURLs :
       (/\ pc = "idle"
        /\ Len(results) < MaxGets
        /\ raw' = url
        /\ (Len(results') = Len(results) + 1 \/ pc' = "fetch")
        /\ in_cache(preprocess_url(url)))
         => /\ pc' = "idle"
            /\ tries' = 0
            /\ sleeps' = 0
            /\ fetches' = fetches
            /\ cache' = cache
            /\ _response' = _response
            /\ results'[Len(results')].outcome = "return"
            /\ results'[Len(results')].record
                 = cache[preprocess_url(url)]]_vars

C18_PreprocessIdempotent ==
  Len(nout) = 2 => nout[2] = nout[1]

\* the constructions, by position
Built == 1..Len(built)

\* the construction got as far as the registration of the extractors
Registered(b) == b.outcome \in {"ok", "TypeError"}

\* C14: a cache root that exists and is not a directory makes construction
\* fail and creates nothing; for any other cache root construction
\* succeeds and the root and its data entry are directories afterwards.
C14_CacheRoot ==
  \A i \in Built :
    IF built[i].fs_before.root = "file"
    THEN /\ built[i].outcome = "RuntimeError"
         /\ built[i].fs_after = built[i].fs_before
    ELSE instantiable(built[i].classes_before \o built[i].additional)
           => /\ built[i].outcome = "ok"
              /\ built[i].fs_after.root = "dir"
              /\ built[i].fs_after.data = "dir"

C19_RegistryPerInstance ==
  \A i \in Built :
    built[i].outcome = "ok"
      => built[i].registry = EXTRACTORS \o built[i].additional

====
